---- MODULE Spec2Model ----
(***************************************************************************)
(* The worker lifecycle and command-dispatch engine of the three ASR       *)
(* servers of the repository: FunASRServer (funasr_server.py),             *)
(* FireRedASRServer (firered_asr_server.py) and GLMASRServer               *)
(* (glm_asr_server.py).  Each is a process that loads its models, writes   *)
(* the initialization outcome as its first output line and then answers    *)
(* line-delimited JSON commands read from standard input.                  *)
(*                                                                         *)
(* The main thread is modelled by pc:                                      *)
(*   "start"    run() has been entered, nothing written yet                *)
(*   "join"     FunASR only: inside initialize(), joining a loader thread  *)
(*   "read"     blocked in sys.stdin.readline() (the while test passed)    *)
(*   "stopped"  the loop has been left                                     *)
(* The FunASR loader threads, and the loader threads that an initialize()  *)
(* call abandoned after a join timeout, run concurrently with it.          *)
(* Durations are integers in milliseconds.  The models, the file system,   *)
(* the duration probe and the input stream are the environment: their      *)
(* outcomes are chosen nondeterministically.                               *)
(***************************************************************************)
EXTENDS Integers, Sequences, FiniteSets, TLC

\* ------------------------------------------------------------------ bounds
\* Input lines read from stdin in one run.
MaxLines == 2
\* Abandoned (timed-out, still running) loader threads per component.
MaxStale == 1

\* ------------------------------------------------------- program constants
\* thread.join(timeout=300), in abstract ticks of 150 s.
JoinTimeout == 2
\* "if self.transcription_count % 10 == 0": the reclamation period.
CleanupEvery == 10

Servers == {"funasr", "firered", "glm"}
\* The two FunASR loader threads, in the order they are started and joined.
Components == {"asr", "vad"}
\* Audio lengths the duration probe may report, in milliseconds.
Durations == {1500, 3004}

\* The model handles (attributes set to None by __init__) of each server.
Handles(srv) ==
    IF srv = "funasr" THEN {"asr_model", "vad_model"}
    ELSE IF srv = "firered" THEN {"model", "punc_model"}
    ELSE {"tokenizer", "feature_extractor", "config", "model"}

AllHandles == Handles("funasr") \cup Handles("firered") \cup Handles("glm")

\* The handle a FunASR loader thread assigns.
HandleOf(c) == IF c = "asr" THEN "asr_model" ELSE "vad_model"

VARIABLES
    server,                 \* which of the three servers this process is
    nbefore,                \* input lines read before the explored part of the run
    funasr_installed,       \* FunASR: "from funasr import AutoModel" works
    pc,                     \* position of the main thread
    running,                \* self.running
    initialized,            \* self.initialized
    transcription_count,    \* self.transcription_count
    total_audio_duration,   \* self.total_audio_duration (ms)
    handle,                 \* handle[h]: attribute h is not None
    cur,                    \* FunASR: the current pass's loader threads
    stale,                  \* FunASR: abandoned loader threads still running
    joining,                \* FunASR: the thread the main thread is joining
    waited,                 \* FunASR: ticks spent in the current join
    elapsed,                \* FunASR: ticks since the loaders were started
    pending,                \* FunASR: what called the initialize() in progress
    nread,                  \* input lines read (blank ones included)
    ncmd,                   \* non-blank input lines read
    nout,                   \* output lines written
    last_cmd,               \* kind of the last non-blank line read
    audio_path,             \* the audio_path of that line, if a transcribe
    last_out,               \* the last output line written
    last_re,                \* which command the last output line answers
    attempts,               \* initialization passes started (model loads)
    last_init,              \* what the latest initialize() call returned
    invoked,                \* handles invoked by the latest command handled
    raised,                 \* what raised while that command was handled
    reclaims,               \* reclamation passes run by transcribe commands
    assigns,                \* times each handle was assigned a model
    ok_count,               \* transcribe responses with success:true
    ok_sum                  \* sum of the durations those responses reported

threadVars == <<cur, stale, joining, waited, elapsed, pending>>
statsVars == <<transcription_count, total_audio_duration>>
inVars == <<nread, ncmd, last_cmd, audio_path>>
outVars == <<nout, last_out, last_re>>
ghostVars == <<invoked, raised, reclaims, ok_count, ok_sum>>
vars == <<server, nbefore, funasr_installed, pc, running, initialized, transcription_count,
          total_audio_duration, handle, cur, stale, joining, waited, elapsed,
          pending, nread, ncmd, nout, last_cmd, audio_path, last_out,
          last_re, attempts, last_init, invoked, raised, reclaims, assigns,
          ok_count, ok_sum>>

\* ---------------------------------------------------------------- responses
\* One output line: the JSON object's fields that the servers ever set.
\* msg tags the human-readable text; type "" means the field is absent;
\* keys is the set of top-level keys the object carries (for a transcription
\* result and a status report, those that the three servers have in common).
NoResp ==
    [keys |-> {}, success |-> FALSE, type |-> "", msg |-> "none", failed |-> {},
     traceback |-> FALSE, text |-> "", raw_text |-> "", duration |-> 0,
     initialized |-> FALSE, models |-> {}, count |-> 0, total |-> 0,
     average |-> 0]

Failure(type, msg) ==
    [NoResp EXCEPT !.type = type, !.msg = msg,
                   !.keys = {"success", "error"}
                              \cup (IF type = "" THEN {} ELSE {"type"})]

\* A success object that carries a "message".
Message(msg) ==
    [NoResp EXCEPT !.success = TRUE, !.msg = msg, !.keys = {"success", "message"}]

\* {"success": True, "message": "模型已初始化"}
AlreadyInitialized == Message("already_initialized")
\* {"success": True, "message": "...初始化成功..."}
InitSuccess == Message("init_ok")
\* Mutant of InitTimeout: the timeout is reported as a plain init_error.
InitTimeout_Untyped == Failure("init_error", "load_timeout")

\* {"success": False, "error": "模型加载超时", "type": "timeout_error"}
InitTimeout == Failure("timeout_error", "load_timeout")
\* {"success": False, "error": "以下模型加载失败: ...", "type": "init_error"}
InitFailedModels(names) == [Failure("init_error", "models_failed") EXCEPT !.failed = names]
\* except ImportError / except Exception of initialize()
InitImportError == Failure("import_error", "missing_dependency")
InitError == Failure("init_error", "init_failed")
\* Mutant of ModelsNotDownloaded: missing model files are reported as a
\* failed initialization.
ModelsNotDownloaded_AsInitError == Failure("init_error", "models_not_downloaded")
\* {"success": False, "error": "模型文件未下载，请先下载模型", "type": "models_not_downloaded"}
ModelsNotDownloaded == Failure("models_not_downloaded", "models_not_downloaded")
\* {"success": False, "error": "音频文件不存在: ..."}
NotFound == Failure("", "audio_not_found")
\* Mutant of TranscriptionError: the failure carries no error kind.
TranscriptionError_Untyped == Failure("", "transcription_failed")

\* {"success": False, "error": "音频转录失败: ...", "type": "transcription_error"}
TranscriptionError == Failure("transcription_error", "transcription_failed")
\* {"success": False, "error": "无效的JSON命令"}
InvalidJson == Failure("", "invalid_json")
\* {"success": False, "error": "未知命令: ..."}
UnknownCommand == Failure("", "unknown_command")
\* {"success": False, "error": str(e), "traceback": ...}
LoopError ==
    [Failure("", "exception") EXCEPT !.traceback = TRUE,
                                     !.keys = {"success", "error", "traceback"}]
\* {"success": True, "message": "内存清理完成"}
CleanupDone == Message("cleanup_done")
\* {"success": True, "message": "服务器退出"}
ExitAck == Message("exit")

\* ------------------------------------------------------------ pure helpers
Max(a, b) == IF a >= b THEN a ELSE b

\* round(num/den seconds, 2) on millisecond integers: the nearest multiple of
\* 10 ms, a tie going to the even hundredth (Python's round-half-even).
Round2(num, den) ==
    LET d == 10 * den
        q == num \div d
        r == num % d
    IN  IF 2 * r < d THEN 10 * q
        ELSE IF 2 * r > d THEN 10 * (q + 1)
        ELSE IF q % 2 = 0 THEN 10 * q ELSE 10 * (q + 1)

\* The handles a status or stats report lists as loaded (FunASR only).
ModelsLoaded(srv, hnd) ==
    IF srv = "funasr" THEN {h \in Handles("funasr") : hnd[h]} ELSE {}

\* Mutant of get_performance_stats: the stats command prints the statistics
\* object itself, without the {"success": True, "stats": ...} wrapper.
get_performance_stats_Bare(srv, cnt, tot, init, hnd) ==
    [NoResp EXCEPT !.msg = "stats",
                   !.count = cnt,
                   !.total = Round2(tot, 1),
                   !.average = Round2(tot, Max(1, cnt)),
                   !.initialized = init,
                   !.models = ModelsLoaded(srv, hnd),
                   !.keys = {"transcription_count", "total_audio_duration",
                             "average_duration", "initialized"}]

\* get_performance_stats(), wrapped by the stats command.
get_performance_stats(srv, cnt, tot, init, hnd) ==
    [NoResp EXCEPT !.success = TRUE, !.msg = "stats",
                   !.count = cnt,
                   !.total = Round2(tot, 1),
                   !.average = Round2(tot, Max(1, cnt)),
                   !.initialized = init,
                   !.models = ModelsLoaded(srv, hnd),
                   !.keys = {"success", "stats"}]

\* What can go wrong in the introspection of check_status(): nothing, an
\* import that fails with ImportError (funasr / torch not installed), or
\* anything else (an import that fails otherwise, a CUDA query that raises).
StatusFaults == {"none", "import", "other"}

\* Whether the error leaves check_status(): FunASRServer's has
\* "except ImportError" only, the two others have "except Exception".
StatusRaises(srv, fault) == srv = "funasr" /\ fault = "other"

\* check_status(), when it returns.
check_status(srv, fault, init, hnd) ==
    IF fault = "none"
    THEN [NoResp EXCEPT !.success = TRUE, !.msg = "status",
                        !.initialized = init,
                        !.models = ModelsLoaded(srv, hnd),
                        !.keys = {"success", "initialized"}]
    ELSE IF srv = "funasr"
         THEN [Failure("", "not_installed") EXCEPT
                  !.initialized = FALSE,
                  !.keys = {"success", "installed", "initialized", "error"}]
         ELSE [Failure("", "status_failed") EXCEPT
                  !.initialized = init,
                  !.keys = {"success", "error", "initialized"}]

\* The reclamation policy of transcribe_audio(): the count just incremented
\* is a multiple of the period.
NeedsCleanup(cnt) == cnt % CleanupEvery = 0

\* Mutant of NeedsInit: transcribe_audio() calls initialize() every time and
\* initialize() has no "already initialized" test.
NeedsInit_Always(init) == TRUE

\* Mutant of NeedsInit: a failed pass is remembered and never repeated.
NeedsInit_Once(init) == ~init /\ attempts = 0

\* "if not self.initialized: init_result = self.initialize()" of
\* transcribe_audio(): nothing but the flag is consulted.
NeedsInit(init) == ~init

\* Mutant of ReturnsInitFailure: the handler goes on after a failed pass.
ReturnsInitFailure_Never(init_result) == FALSE

\* "if not init_result["success"]: return init_result" of transcribe_audio().
ReturnsInitFailure(init_result) == ~init_result.success

\* Mutant of LoopTop: "while True", the flag is never looked at.
LoopTop_Ignore(run) == "read"

\* "while self.running": where the main thread goes after an iteration.
LoopTop(run) == IF run THEN "read" ELSE "stopped"

\* ------------------------------------------- initialization (FireRed, GLM)
\* What the environment lets a load pass do.
InitOutcomes(srv) ==
    IF srv = "firered"
    THEN {"import_error", "load_error", "punc_unavailable", "ok"}
    ELSE {"import_error", "tokenizer_error", "config_error", "model_error", "ok"}

\* The handles a load pass of FireRedASRServer / GLMASRServer.initialize()
\* assigns a model to before it returns, given the outcome.
Assigned(srv, o) ==
    IF srv = "firered"
    THEN CASE o = "ok" -> {"model", "punc_model"}
           [] o = "punc_unavailable" -> {"model"}
           [] OTHER -> {}
    ELSE CASE o = "ok" -> {"tokenizer", "feature_extractor", "config", "model"}
           [] o = "model_error" -> {"tokenizer", "feature_extractor", "config"}
           [] o = "config_error" -> {"tokenizer", "feature_extractor"}
           [] OTHER -> {}

\* The handles the pass sets back to None ("self.punc_model = None").
Cleared(srv, o) ==
    IF srv = "firered" /\ o = "punc_unavailable" THEN {"punc_model"} ELSE {}

\* Mutant of LoadSucceeds: the punctuation model is required too.
LoadSucceeds_PuncRequired(srv, o) == o = "ok"

\* Whether the pass reaches "self.initialized = True".
LoadSucceeds(srv, o) ==
    IF srv = "firered" THEN o \in {"ok", "punc_unavailable"} ELSE o = "ok"

\* The object the pass returns.
LoadResult(srv, o) ==
    IF LoadSucceeds(srv, o) THEN InitSuccess
    ELSE IF o = "import_error" THEN InitImportError
    ELSE InitError

\* ------------------------------------------------------------- transcribe
\* What the environment does to one transcribe command.
\*   use_vad : options["use_vad"] (FunASR)
\*   raises  : the collaborator that raises, if any (the librosa import, the
\*             VAD model, the duration probe or audio loader, the recognizer,
\*             the punctuation model, gc / torch of a reclamation pass)
\*   shape   : the recognizer returns a non-empty result, or an empty list
\*   dur     : the audio length the probe reports
TranscribeEnvs(srv) ==
    IF srv = "funasr"
    THEN [use_vad : BOOLEAN, raises : {"none", "vad", "probe", "model", "reclaim"},
          shape : {"item", "empty_list"}, dur : Durations]
    ELSE IF srv = "firered"
    THEN [use_vad : {FALSE},
          raises : {"none", "import", "probe", "model", "punc", "reclaim"},
          shape : {"item", "empty_list"}, dur : Durations]
    ELSE [use_vad : {FALSE}, raises : {"none", "probe", "model", "reclaim"},
          shape : {"item"}, dur : Durations]

\* The audio_path of a transcribe command: a file that exists, one that does
\* not, no audio_path field at all (command.get gives None), or the number
\* of an open file descriptor (0, 1, 2, true), which json.loads hands over
\* as an int and os.path.exists() answers True for.
Paths == {"exists", "nonexistent", "absent", "fd"}

\* The environments that make a difference to a transcribe handler: none
\* when its initialize() failed (ready is false: it returns at once); when
\* the path is rejected, only whether the librosa import that precedes the
\* existence test of FireRedASRServer works; when the path is a descriptor
\* number, the ones in which what is handed the number raises (none of the
\* descriptors of the worker is an audio file); all of them otherwise.
EnvsReached(srv, ready, path) ==
    IF ready /\ path = "exists" THEN TranscribeEnvs(srv)
    ELSE IF ready /\ path = "fd" /\ srv # "glm"
    THEN {e \in TranscribeEnvs(srv) :
            /\ e.shape = "item"
            /\ \A d \in Durations : e.dur <= d
            /\ IF srv = "funasr"
               THEN e.raises = (IF e.use_vad THEN "vad" ELSE "model")
               ELSE e.raises \in {"import", "probe"}}
    ELSE {e \in TranscribeEnvs(srv) :
            /\ ~e.use_vad
            /\ e.shape = "item"
            /\ \A d \in Durations : e.dur <= d
            /\ \/ e.raises = "none"
               \/ ready /\ e.raises = "import"}

\* What a transcribe handler hands back: the response, the counters as it
\* leaves them, the handles it invoked, whether it ran a reclamation pass,
\* and what raised on the way ("none" if nothing did).
Outcome(resp, cnt, tot, inv, recl, exc) ==
    [resp |-> resp, count |-> cnt, total |-> tot, invoked |-> inv,
     reclaimed |-> recl, raised |-> exc]

TranscribeSuccess(text, raw, dur) ==
    [NoResp EXCEPT !.success = TRUE, !.msg = "transcribed",
                   !.text = text, !.raw_text = raw, !.duration = dur,
                   !.keys = {"success", "text", "duration", "language",
                             "model_type"}]

\* Mutant of cleanup_memory: no try / except, a failing pass raises.
cleanup_memory_Raises(fails) == ~fails

\* _cleanup_memory(): TRUE when the call returns normally.  The body is one
\* try / except Exception, so it does whether or not gc / torch raise.
cleanup_memory(fails) == TRUE

\* The end of the three transcribe_audio() try blocks, after the counters
\* were updated to cnt and tot and the result object resp was built: the
\* reclamation pass if it is due, and the return.
Reclaim(resp, cnt, tot, inv, e, exc) ==
    LET due == NeedsCleanup(cnt)
        fails == due /\ e.raises = "reclaim"
    IN  IF due /\ ~cleanup_memory(fails)
        THEN Outcome(TranscriptionError, cnt, tot, inv, TRUE, "reclaim")
        ELSE Outcome(resp, cnt, tot, inv, due, IF fails THEN "reclaim" ELSE exc)

\* FunASRServer.transcribe_audio() from its try block on.
funasr_transcribe(cnt, tot, hnd, path, e) ==
    LET vad == IF e.use_vad THEN {"vad_model"} ELSE {}
        \* _get_audio_duration(): adds to the total, or returns 0.0
        dur == IF e.raises = "probe" THEN 0 ELSE e.dur
        probe == IF e.raises = "probe" THEN "probe" ELSE "none"
    IN  IF path = "absent"
        THEN Outcome(TranscriptionError, cnt, tot, {}, FALSE, "path")
        ELSE IF path = "nonexistent"
        THEN Outcome(NotFound, cnt, tot, {}, FALSE, "none")
        \* "self.vad_model.generate" of a handle that is still None raises
        \* AttributeError, and so does "self.asr_model.generate"
        ELSE IF e.use_vad /\ ~hnd["vad_model"]
        THEN Outcome(TranscriptionError, cnt, tot, {}, FALSE, "unset")
        ELSE IF e.use_vad /\ e.raises = "vad"
        THEN Outcome(TranscriptionError, cnt, tot, vad, FALSE, "vad")
        ELSE IF ~hnd["asr_model"]
        THEN Outcome(TranscriptionError, cnt, tot, vad, FALSE, "unset")
        ELSE IF e.raises = "model"
        THEN Outcome(TranscriptionError, cnt, tot, vad \cup {"asr_model"},
                     FALSE, "model")
        ELSE IF e.shape = "empty_list"
        \* asr_result[0] of the "confidence" entry raises IndexError after
        \* the duration was added and the count incremented
        THEN Outcome(TranscriptionError, cnt + 1, tot + dur,
                     vad \cup {"asr_model"}, FALSE, "result")
        \* the FunASR result carries "text" only, no "raw_text"
        ELSE Reclaim(TranscribeSuccess("text", "", dur), cnt + 1, tot + dur,
                     vad \cup {"asr_model"}, e, probe)

\* Mutant of final_text: the transcript is lost when the restoration raises.
final_text_Lost(raw, usePunc, fails) ==
    IF usePunc THEN (IF fails THEN "" ELSE "text.") ELSE raw

\* The punctuation restoration of FireRedASRServer.transcribe_audio():
\* final_text starts as raw_text and is replaced only if the punctuation
\* model is there, the transcript is not empty and generate() does not raise.
final_text(raw, usePunc, fails) ==
    IF usePunc /\ ~fails THEN "text." ELSE raw

\* FireRedASRServer.transcribe_audio() from its try block on.
firered_transcribe(cnt, tot, hnd, path, e) ==
    LET raw == IF e.shape = "empty_list" THEN "" ELSE "text"
        usePunc == hnd["punc_model"] /\ raw # ""
        puncFails == usePunc /\ e.raises = "punc"
        final == final_text(raw, usePunc, puncFails)
        inv == {"model"} \cup (IF usePunc THEN {"punc_model"} ELSE {})
    IN  IF e.raises = "import"
        \* "import librosa" comes before the existence check
        THEN Outcome(TranscriptionError, cnt, tot, {}, FALSE, "import")
        ELSE IF path = "absent"
        THEN Outcome(TranscriptionError, cnt, tot, {}, FALSE, "path")
        ELSE IF path = "nonexistent"
        THEN Outcome(NotFound, cnt, tot, {}, FALSE, "none")
        ELSE IF e.raises = "probe"
        THEN Outcome(TranscriptionError, cnt, tot, {}, FALSE, "probe")
        ELSE IF e.raises = "model"
        THEN Outcome(TranscriptionError, cnt, tot, {"model"}, FALSE, "model")
        ELSE Reclaim(TranscribeSuccess(final, raw, e.dur), cnt + 1,
                     tot + e.dur, inv, e, IF puncFails THEN "punc" ELSE "none")

\* GLMASRServer.transcribe_audio() from its try block on.
glm_transcribe(cnt, tot, path, e) ==
    LET prompt == {"feature_extractor", "tokenizer", "config"}
    IN  IF path = "absent"
        THEN Outcome(TranscriptionError, cnt, tot, {}, FALSE, "path")
        \* os.path.exists(1) is True; "Path(audio_path)", the first
        \* statement of _build_prompt(), raises TypeError for an int
        ELSE IF path = "fd"
        THEN Outcome(TranscriptionError, cnt, tot, {}, FALSE, "path")
        ELSE IF path = "nonexistent"
        THEN Outcome(NotFound, cnt, tot, {}, FALSE, "none")
        ELSE IF e.raises = "probe"
        \* _build_prompt() raises (the audio does not load, or is empty)
        THEN Outcome(TranscriptionError, cnt, tot, prompt, FALSE, "probe")
        ELSE IF e.raises = "model"
        THEN Outcome(TranscriptionError, cnt, tot, prompt \cup {"model"},
                     FALSE, "model")
        ELSE Reclaim(TranscribeSuccess("text", "text", e.dur), cnt + 1,
                     tot + e.dur, prompt \cup {"model"}, e, "none")

\* Mutant of Transcribe: no os.path.exists test, a path that does not exist
\* is handed to the models like one that does.
Transcribe_NoExistenceCheck(srv, cnt, tot, hnd, path, e) ==
    LET p == IF path = "nonexistent" THEN "exists" ELSE path
    IN  IF srv = "funasr" THEN funasr_transcribe(cnt, tot, hnd, p, e)
        ELSE IF srv = "firered" THEN firered_transcribe(cnt, tot, hnd, p, e)
        ELSE glm_transcribe(cnt, tot, p, e)

\* transcribe_audio() of the server once the worker is initialized.
Transcribe(srv, cnt, tot, hnd, path, e) ==
    IF srv = "funasr" THEN funasr_transcribe(cnt, tot, hnd, path, e)
    ELSE IF srv = "firered" THEN firered_transcribe(cnt, tot, hnd, path, e)
    ELSE glm_transcribe(cnt, tot, path, e)

\* ------------------------------------------------------------------ state
NoPending == [kind |-> "none", path |-> "none"]

Init ==
    /\ server \in Servers
    /\ nbefore = 0
    /\ funasr_installed \in (IF server = "funasr" THEN BOOLEAN ELSE {TRUE})
    /\ pc = "start"
    /\ running = TRUE
    /\ initialized = FALSE
    /\ transcription_count = 0
    /\ total_audio_duration = 0
    /\ handle = [h \in AllHandles |-> FALSE]
    /\ cur = [c \in Components |-> "idle"]
    /\ stale = [c \in Components |-> 0]
    /\ joining = "asr"
    /\ waited = 0
    /\ elapsed = 0
    /\ pending = NoPending
    /\ nread = 0
    /\ ncmd = 0
    /\ nout = 0
    /\ last_cmd = "none"
    /\ audio_path = "none"
    /\ last_out = NoResp
    /\ last_re = 0
    /\ attempts = 0
    /\ last_init = NoResp
    /\ invoked = {}
    /\ raised = "none"
    /\ reclaims = 0
    /\ assigns = [h \in AllHandles |-> 0]
    /\ ok_count = 0
    /\ ok_sum = 0

\* print(json.dumps(result)); sys.stdout.flush(): one output line, answering
\* command number re (0: the startup line).
Write(resp, re) ==
    /\ nout' = nout + 1
    /\ last_out' = resp
    /\ last_re' = re

\* readline() returned a non-blank line of the given kind; path is its
\* audio_path when it is a transcribe command ("none" otherwise).
ReadCommand(kind, path) ==
    /\ pc = "read"
    /\ nread < nbefore + MaxLines
    /\ nread' = nread + 1
    /\ ncmd' = ncmd + 1
    /\ last_cmd' = kind
    /\ audio_path' = path

\* The counters and the bookkeeping once a transcribe handler has returned o.
Apply(o) ==
    /\ transcription_count' = o.count
    /\ total_audio_duration' = o.total
    /\ invoked' = o.invoked
    /\ raised' = o.raised
    /\ reclaims' = reclaims + (IF o.reclaimed THEN 1 ELSE 0)
    /\ ok_count' = ok_count + (IF o.resp.success THEN 1 ELSE 0)
    /\ ok_sum' = ok_sum + (IF o.resp.success THEN o.resp.duration ELSE 0)

\* A handler that is not transcribe: the counters are not touched.
NoTranscribe ==
    /\ invoked' = {}
    /\ raised' = "none"
    /\ UNCHANGED <<statsVars, reclaims, ok_count, ok_sum>>

\* A model is assigned to each handle of hs, None to each handle of cs.
Assign(hs, cs) ==
    /\ handle' = [h \in AllHandles |->
                    IF h \in hs THEN TRUE ELSE IF h \in cs THEN FALSE ELSE handle[h]]
    /\ assigns' = [h \in AllHandles |->
                    IF h \in hs /\ assigns[h] < 2 THEN assigns[h] + 1 ELSE assigns[h]]

\* FireRedASRServer / GLMASRServer.initialize() past its "already
\* initialized" test: one load pass with outcome o.
LoadPass(o) ==
    /\ Assign(Assigned(server, o), Cleared(server, o))
    /\ initialized' = LoadSucceeds(server, o)
    /\ last_init' = LoadResult(server, o)
    /\ attempts' = attempts + 1

\* transcribe_audio() around its try block: the handler result given what
\* initialize() returned (init_result) and left behind (hnd).
transcribe_audio(init_result, hnd, path, e) ==
    IF ReturnsInitFailure(init_result)
    THEN Outcome(init_result, transcription_count, total_audio_duration, {},
                 FALSE, "none")
    ELSE Transcribe(server, transcription_count, total_audio_duration, hnd, path, e)

\* FunASRServer.initialize(): the loader threads are created and started.
StartLoaders(pend) ==
    /\ cur' = [c \in Components |-> "running"]
    /\ joining' = "asr"
    /\ waited' = 0
    /\ elapsed' = 0
    /\ pending' = pend
    /\ attempts' = attempts + 1
    /\ pc' = "join"
    /\ UNCHANGED stale

\* ---------------------------------------------------------------- startup
\* FunASRServer.run() before the loop: the model files are looked for, and
\* initialize() is called only if none is missing.
StartupFunASR ==
    /\ pc = "start"
    /\ server = "funasr"
    /\ \E missing \in BOOLEAN :
         IF missing
         THEN /\ Write(ModelsNotDownloaded, 0)
              /\ pc' = LoopTop(running)
              /\ UNCHANGED <<threadVars, attempts>>
         ELSE /\ StartLoaders([kind |-> "startup", path |-> "none"])
              /\ UNCHANGED outVars
    /\ UNCHANGED <<server, nbefore, funasr_installed, running, initialized, statsVars, handle, inVars,
                   last_init, ghostVars, assigns>>

\* Mutant of StartupDirect: the outcome is printed only when it is a success.
StartupDirect_Silent ==
    /\ pc = "start"
    /\ server # "funasr"
    /\ \E o \in InitOutcomes(server) :
         /\ LoadPass(o)
         /\ IF LoadSucceeds(server, o)
            THEN Write(LoadResult(server, o), 0)
            ELSE UNCHANGED outVars
    /\ pc' = LoopTop(running)
    /\ UNCHANGED <<server, nbefore, funasr_installed, running, statsVars, threadVars, inVars, ghostVars>>

\* Mutant of StartupDirect: the outcome is printed only while the stop flag
\* is not set.
StartupDirect_Suppressed ==
    /\ pc = "start"
    /\ server # "funasr"
    /\ \E o \in InitOutcomes(server) :
         /\ LoadPass(o)
         /\ IF running
            THEN Write(LoadResult(server, o), 0)
            ELSE UNCHANGED outVars
    /\ pc' = LoopTop(running)
    /\ UNCHANGED <<server, nbefore, funasr_installed, running, statsVars, threadVars, inVars, ghostVars>>

\* FireRedASRServer / GLMASRServer.run() before the loop.
StartupDirect ==
    /\ pc = "start"
    /\ server # "funasr"
    /\ \E o \in InitOutcomes(server) :
         /\ LoadPass(o)
         /\ Write(LoadResult(server, o), 0)
    /\ pc' = LoopTop(running)
    /\ UNCHANGED <<server, nbefore, funasr_installed, running, statsVars, threadVars, inVars, ghostVars>>

\* ------------------------------------------------- FunASR loader threads
\* How a FunASR loader ends: the handle is assigned and True returned, or
\* AutoModel(...) raises (fail), or, when the library is not installed,
\* "from funasr import AutoModel" raises (no_module); either exception is
\* caught by the loader's "except Exception", which returns False. The ASR
\* loader also runs the model.py of the model repository (remote_code,
\* trust_remote_code=True): what that raises may be no Exception (a
\* SystemExit), "except Exception" lets it through, the thread ends, and
\* "results[model_name] = load_func()" never stores (died).
LoaderResults == {"ok", "no_module", "fail", "died"}

LoaderEnds(installed, c) ==
    IF ~installed THEN {"no_module"}
    ELSE IF c = "asr" THEN {"ok", "fail", "died"}
    ELSE {"ok", "fail"}

\* load_model_thread(): a loader of the current pass ends.
LoaderFinish(c) ==
    /\ cur[c] = "running"
    /\ \E r \in LoaderEnds(funasr_installed, c) :
         /\ cur' = [cur EXCEPT ![c] = r]
         /\ Assign(IF r = "ok" THEN {HandleOf(c)} ELSE {}, {})
    /\ UNCHANGED <<server, nbefore, funasr_installed, pc, running, initialized, statsVars, stale, joining,
                   waited, elapsed, pending, inVars, outVars, attempts,
                   last_init, ghostVars>>

\* Mutant of StaleFinish: a loader that ends after the timeout of its
\* initialize() marks the worker initialized when its model has loaded.
StaleFinish_SetsReady(c) ==
    /\ stale[c] > 0
    /\ \E r \in LoaderEnds(funasr_installed, c) :
         /\ Assign(IF r = "ok" THEN {HandleOf(c)} ELSE {}, {})
         /\ initialized' = (initialized \/ r = "ok")
    /\ stale' = [stale EXCEPT ![c] = stale[c] - 1]
    /\ UNCHANGED <<server, nbefore, funasr_installed, pc, running, statsVars, cur, joining,
                   waited, elapsed, pending, inVars, outVars, attempts,
                   last_init, ghostVars>>

\* A loader that an earlier initialize() stopped waiting for ends.
StaleFinish(c) ==
    /\ stale[c] > 0
    /\ \E r \in LoaderEnds(funasr_installed, c) :
         Assign(IF r = "ok" THEN {HandleOf(c)} ELSE {}, {})
    /\ stale' = [stale EXCEPT ![c] = stale[c] - 1]
    /\ UNCHANGED <<server, nbefore, funasr_installed, pc, running, initialized, statsVars, cur, joining,
                   waited, elapsed, pending, inVars, outVars, attempts,
                   last_init, ghostVars>>

\* Time passes while thread.join(timeout=300) waits for a live thread.
Tick ==
    /\ pc = "join"
    /\ cur[joining] = "running"
    /\ waited < JoinTimeout
    /\ waited' = waited + 1
    /\ elapsed' = elapsed + 1
    /\ UNCHANGED <<server, nbefore, funasr_installed, pc, running, initialized, statsVars, handle, cur,
                   stale, joining, pending, inVars, outVars, attempts,
                   last_init, ghostVars, assigns>>

\* The join of the first thread returned and the thread is not alive: the
\* for loop goes on to join the second thread, with a timeout of its own.
JoinNext ==
    /\ pc = "join"
    /\ joining = "asr"
    /\ cur["asr"] # "running"
    /\ joining' = "vad"
    /\ waited' = 0
    /\ UNCHANGED <<server, nbefore, funasr_installed, pc, running, initialized, statsVars, handle, cur,
                   stale, elapsed, pending, inVars, outVars, attempts,
                   last_init, ghostVars, assigns>>

\* What FunASRServer.initialize() returns after both joins.
JoinResult(results) ==
    LET failed_models == {c \in Components : results[c] \in {"no_module", "fail"}}
    IN  IF failed_models # {} THEN InitFailedModels(failed_models) ELSE InitSuccess

\* initialize() has returned init_result to its caller (run() at startup, or
\* transcribe_audio()), which goes on to write one output line.
Resume(init_result) ==
    /\ last_init' = init_result
    /\ pending' = NoPending
    /\ joining' = "asr"
    /\ waited' = 0
    /\ elapsed' = 0
    /\ cur' = [c \in Components |-> "idle"]
    /\ pc' = LoopTop(running)
    /\ IF pending.kind = "startup"
       THEN /\ Write(init_result, 0)
            /\ UNCHANGED ghostVars
            /\ UNCHANGED statsVars
       ELSE \E e \in EnvsReached(server, init_result.success, pending.path) :
              LET o == transcribe_audio(init_result, handle, pending.path, e)
              IN  /\ Apply(o)
                  /\ Write(o.resp, ncmd)

\* The join timed out and the thread is still alive: initialize() returns a
\* timeout failure and stops waiting; the live loaders keep running.
JoinTimedOut ==
    /\ pc = "join"
    /\ cur[joining] = "running"
    /\ waited = JoinTimeout
    /\ \A c \in Components : cur[c] = "running" => stale[c] < MaxStale
    /\ stale' = [c \in Components |->
                    IF cur[c] = "running" THEN stale[c] + 1 ELSE stale[c]]
    /\ Resume(InitTimeout)
    /\ UNCHANGED <<server, nbefore, funasr_installed, running, initialized, handle, inVars,
                   attempts, assigns>>

\* Both threads were joined in time: the results are inspected.
JoinDone ==
    /\ pc = "join"
    /\ joining = "vad"
    /\ cur["vad"] # "running"
    /\ initialized' = JoinResult(cur).success
    /\ Resume(JoinResult(cur))
    /\ UNCHANGED <<server, nbefore, funasr_installed, running, handle, stale, inVars, attempts,
                   assigns>>

\* ----------------------------------------------------------------- signals
\* Mutant of Signal: the signal ends a readline() that is waiting for
\* input (the KeyboardInterrupt the loop would break on).
Signal_Interrupts ==
    /\ pc # "stopped"
    /\ running
    /\ running' = FALSE
    /\ pc' = (IF pc = "read" THEN "stopped" ELSE pc)
    /\ UNCHANGED <<server, nbefore, funasr_installed, initialized, statsVars, handle, threadVars,
                   inVars, outVars, attempts, last_init, ghostVars, assigns>>

\* _signal_handler(): SIGTERM or SIGINT arrives, at any point of the run.
Signal ==
    /\ pc # "stopped"
    /\ running
    /\ running' = FALSE
    /\ UNCHANGED <<server, nbefore, funasr_installed, pc, initialized, statsVars, handle, threadVars,
                   inVars, outVars, attempts, last_init, ghostVars, assigns>>

\* ------------------------------------------------------------ the run loop
\* Mutant of ReadEOF: "continue" where the code has "break".
ReadEOF_Continue ==
    /\ pc = "read"
    /\ pc' = "read"
    /\ UNCHANGED <<server, nbefore, funasr_installed, running, initialized,
                   statsVars, handle, threadVars, inVars, outVars, attempts,
                   last_init, ghostVars, assigns>>

\* readline() returns "": end of input, the loop is left.
ReadEOF ==
    /\ pc = "read"
    /\ pc' = "stopped"
    /\ UNCHANGED <<server, nbefore, funasr_installed, running, initialized, statsVars, handle, threadVars,
                   inVars, outVars, attempts, last_init, ghostVars, assigns>>

\* Mutant of ReadBlank: a blank line goes on to json.loads() and is answered
\* as invalid JSON.
ReadBlank_Answers ==
    /\ pc = "read"
    /\ nread < nbefore + MaxLines
    /\ nread' = nread + 1
    /\ Write(InvalidJson, ncmd)
    /\ pc' = LoopTop(running)
    /\ UNCHANGED <<server, nbefore, funasr_installed, running, initialized, statsVars, handle, threadVars,
                   ncmd, last_cmd, audio_path, attempts, last_init,
                   ghostVars, assigns>>

\* A line that is empty after strip(): continue.
ReadBlank ==
    /\ pc = "read"
    /\ nread < nbefore + MaxLines
    /\ nread' = nread + 1
    /\ pc' = LoopTop(running)
    /\ UNCHANGED <<server, nbefore, funasr_installed, running, initialized, statsVars, handle, threadVars,
                   ncmd, last_cmd, audio_path, outVars, attempts, last_init,
                   ghostVars, assigns>>

\* A handler that touches neither the worker nor the counters answers resp.
Answer(kind, resp) ==
    /\ ReadCommand(kind, "none")
    /\ Write(resp, ncmd + 1)
    /\ NoTranscribe
    /\ UNCHANGED <<server, nbefore, funasr_installed, running, initialized, handle, threadVars, attempts,
                   last_init, assigns>>

\* Mutant of ReadMalformed: no "continue", so the common print at the end of
\* the iteration writes the error line a second time.
ReadMalformed_NoContinue ==
    /\ ReadCommand("malformed", "none")
    /\ nout' = nout + 2
    /\ last_out' = InvalidJson
    /\ last_re' = ncmd + 1
    /\ NoTranscribe
    /\ pc' = LoopTop(running)
    /\ UNCHANGED <<server, nbefore, funasr_installed, running, initialized, handle, threadVars, attempts,
                   last_init, assigns>>

\* Mutant of ReadMalformed: "break" where the code has "continue".
ReadMalformed_Break ==
    /\ Answer("malformed", InvalidJson)
    /\ pc' = "stopped"

\* json.loads raises JSONDecodeError: one error line, continue.
ReadMalformed ==
    /\ Answer("malformed", InvalidJson)
    /\ pc' = LoopTop(running)

\* Mutant of ReadNonObject: the loop has no "except Exception", the error
\* ends run() with nothing written.
ReadNonObject_Escapes ==
    /\ ReadCommand("non_object", "none")
    /\ NoTranscribe
    /\ pc' = "stopped"
    /\ UNCHANGED <<server, nbefore, funasr_installed, running, initialized, handle, threadVars, outVars,
                   attempts, last_init, assigns>>

\* The line decodes to a JSON value that is no object: command.get raises
\* AttributeError, caught by the loop's "except Exception".
ReadNonObject ==
    /\ Answer("non_object", LoopError)
    /\ pc' = LoopTop(running)

\* The status command; an error that leaves check_status() is answered by
\* the loop's "except Exception".
CmdStatus ==
    /\ ReadCommand("status", "none")
    /\ \E fault \in StatusFaults :
         /\ Write(IF StatusRaises(server, fault) THEN LoopError
                  ELSE check_status(server, fault, initialized, handle),
                  ncmd + 1)
         /\ raised' = fault
    /\ invoked' = {}
    /\ pc' = LoopTop(running)
    /\ UNCHANGED <<server, nbefore, funasr_installed, running, initialized, statsVars, handle,
                   threadVars, attempts, last_init, reclaims, ok_count, ok_sum,
                   assigns>>

CmdStats ==
    /\ Answer("stats", get_performance_stats(server, transcription_count,
                           total_audio_duration, initialized, handle))
    /\ pc' = LoopTop(running)

\* The cleanup command: _cleanup_memory() is called, gc / torch failing in
\* it or not, and the acknowledgment is built once it has returned; were it
\* to raise, the loop's "except Exception" would answer.
CmdCleanup ==
    /\ ReadCommand("cleanup", "none")
    /\ \E fails \in BOOLEAN :
         /\ Write(IF cleanup_memory(fails) THEN CleanupDone ELSE LoopError,
                  ncmd + 1)
         /\ raised' = (IF fails THEN "reclaim" ELSE "none")
    /\ invoked' = {}
    /\ pc' = LoopTop(running)
    /\ UNCHANGED <<server, nbefore, funasr_installed, running, initialized, statsVars, handle, threadVars,
                   attempts, last_init, reclaims, ok_count, ok_sum, assigns>>

\* Mutant of CmdExit: no "break" after the acknowledgment.
CmdExit_NoBreak ==
    /\ Answer("exit", ExitAck)
    /\ pc' = LoopTop(running)

\* The acknowledgment is printed inside the branch, then break.
CmdExit ==
    /\ Answer("exit", ExitAck)
    /\ pc' = "stopped"

\* Mutant of CmdUnknown: the else branch also resets the worker.
CmdUnknown_Resets ==
    /\ ReadCommand("unknown", "none")
    /\ Write(UnknownCommand, ncmd + 1)
    /\ initialized' = FALSE
    /\ transcription_count' = 0
    /\ total_audio_duration' = 0
    /\ invoked' = {}
    /\ raised' = "none"
    /\ pc' = LoopTop(running)
    /\ UNCHANGED <<server, nbefore, funasr_installed, running, handle,
                   threadVars, attempts, last_init, reclaims, ok_count, ok_sum,
                   assigns>>

\* The else branch: an action that is none of the five, or no action at all.
CmdUnknown ==
    /\ Answer("unknown", UnknownCommand)
    /\ pc' = LoopTop(running)

\* transcribe on an initialized worker: initialize() is not called.
CmdTranscribeReady ==
    /\ ~NeedsInit(initialized)
    /\ \E path \in Paths : \E e \in EnvsReached(server, TRUE, path) :
         LET o == Transcribe(server, transcription_count, total_audio_duration,
                             handle, path, e)
         IN  /\ ReadCommand("transcribe", path)
             /\ Apply(o)
             /\ Write(o.resp, ncmd + 1)
    /\ pc' = LoopTop(running)
    /\ UNCHANGED <<server, nbefore, funasr_installed, running, initialized, handle, threadVars, attempts,
                   last_init, assigns>>

\* transcribe on an uninitialized FireRed / GLM worker: initialize() runs
\* first, inside the handler.
CmdTranscribeLazy ==
    /\ NeedsInit(initialized)
    /\ server # "funasr"
    /\ \E lo \in InitOutcomes(server), path \in Paths :
       \E e \in EnvsReached(server, LoadSucceeds(server, lo), path) :
         /\ ReadCommand("transcribe", path)
         /\ LoadPass(lo)
         /\ LET o == transcribe_audio(LoadResult(server, lo), handle', path, e)
            IN  /\ Apply(o)
                /\ Write(o.resp, ncmd + 1)
    /\ pc' = LoopTop(running)
    /\ UNCHANGED <<server, nbefore, funasr_installed, running, threadVars>>

\* transcribe on an uninitialized FunASR worker: initialize() starts the
\* loaders; the handler resumes when the joins end (Resume).
CmdTranscribeLazyFunASR ==
    /\ NeedsInit(initialized)
    /\ server = "funasr"
    /\ \E path \in Paths :
         /\ ReadCommand("transcribe", path)
         /\ StartLoaders([kind |-> "transcribe", path |-> path])
    /\ UNCHANGED <<server, nbefore, funasr_installed, running, initialized, statsVars, handle, outVars,
                   last_init, ghostVars, assigns>>

Next ==
    \/ StartupFunASR
    \/ StartupDirect
    \/ \E c \in Components : LoaderFinish(c)
    \/ \E c \in Components : StaleFinish(c)
    \/ Tick
    \/ JoinNext
    \/ JoinTimedOut
    \/ JoinDone
    \/ Signal
    \/ ReadEOF
    \/ ReadBlank
    \/ ReadMalformed
    \/ ReadNonObject
    \/ CmdStatus
    \/ CmdStats
    \/ CmdCleanup
    \/ CmdExit
    \/ CmdUnknown
    \/ CmdTranscribeReady
    \/ CmdTranscribeLazy
    \/ CmdTranscribeLazyFunASR

Spec == Init /\ [][Next]_vars

\* ------------------------------------------------------- a run in mid-life
\* The worker after CleanupEvery - 1 transcribe commands, each answered with
\* success:true for an audio of the shortest length, and nothing else: it is
\* initialized by its startup pass, every handle is loaded (the optional
\* punctuation model of FireRedASRServer loaded or not), no reclamation pass
\* has run yet and the loop is reading the next line.
InitAged ==
    LET n == CleanupEvery - 1
        d == CHOOSE x \in Durations : \A y \in Durations : x <= y
    IN  /\ server \in Servers
        /\ nbefore = n
        /\ funasr_installed = TRUE
        /\ pc = "read"
        /\ running = TRUE
        /\ initialized = TRUE
        /\ transcription_count = n
        /\ total_audio_duration = n * d
        /\ \E punc \in BOOLEAN :
             LET loaded == IF server = "firered" /\ ~punc
                           THEN {"model"} ELSE Handles(server)
             IN  /\ handle = [h \in AllHandles |-> h \in loaded]
                 /\ assigns = [h \in AllHandles |-> IF h \in loaded THEN 1 ELSE 0]
                 /\ invoked = (IF server = "funasr" THEN {"vad_model", "asr_model"}
                               ELSE IF server = "firered" THEN loaded
                               ELSE Handles("glm"))
                 /\ last_out = (IF server = "funasr"
                                THEN TranscribeSuccess("text", "", d)
                                ELSE IF server = "firered" /\ punc
                                THEN TranscribeSuccess("text.", "text", d)
                                ELSE TranscribeSuccess("text", "text", d))
        /\ cur = [c \in Components |-> "idle"]
        /\ stale = [c \in Components |-> 0]
        /\ joining = "asr"
        /\ waited = 0
        /\ elapsed = 0
        /\ pending = NoPending
        /\ nread = n
        /\ ncmd = n
        /\ nout = n + 1
        /\ last_cmd = "transcribe"
        /\ audio_path = "exists"
        /\ last_re = n
        /\ attempts = 1
        /\ last_init = InitSuccess
        /\ raised = "none"
        /\ reclaims = 0
        /\ ok_count = n
        /\ ok_sum = n * d

\* A run from construction, or from that point on.
SpecAged == (Init \/ InitAged) /\ [][Next]_vars

\* A run whose input is eventually closed: a readline() that can return the
\* end of the stream does return, unless a line arrives first.
SpecLive == Init /\ [][Next]_vars /\ WF_vars(ReadEOF)

\* ---------------------------------------------------------------- typing
TypeOK ==
    /\ server \in Servers
    /\ pc \in {"start", "join", "read", "stopped"}
    /\ running \in BOOLEAN
    /\ initialized \in BOOLEAN
    /\ nbefore \in {0, CleanupEvery - 1}
    /\ funasr_installed \in BOOLEAN
    /\ transcription_count \in nbefore..(nbefore + MaxLines)
    /\ total_audio_duration \in Nat
    /\ handle \in [AllHandles -> BOOLEAN]
    /\ cur \in [Components -> {"idle", "running"} \cup LoaderResults]
    /\ stale \in [Components -> 0..MaxStale]
    /\ joining \in Components
    /\ waited \in 0..JoinTimeout
    /\ nread \in nbefore..(nbefore + MaxLines)
    /\ ncmd \in nbefore..nread
    /\ nout \in 0..(ncmd + 1)
    /\ attempts \in 0..(MaxLines + 1)

\* ------------------------------------------------------------------ claims
\* The latest initialize() call returned a failure.
InitHasFailed == last_init.msg # "none" /\ ~last_init.success

\* This step reads a non-blank line of the given kind.
Reads(kind) == ncmd' = ncmd + 1 /\ last_cmd' = kind

\* This step writes the response to a transcribe command.
TranscribeAnswered == nout' = nout + 1 /\ last_cmd' = "transcribe"

C2_SingleFlight ==
    \A c \in Components : cur[c] = "running" => stale[c] = 0

\* C3: a transcribe command invokes a model only on an initialized worker,
\* and a transcribe answered while the worker is uninitialized returns
\* exactly what its initialize() call returned, a failure, with no model
\* invoked.
C3_NoModelBeforeInit ==
    [][TranscribeAnswered =>
          /\ (invoked' # {} => initialized')
          /\ ~initialized' =>
                (/\ last_out' = last_init'
                 /\ ~last_out'.success
                 /\ invoked' = {})]_vars

\* A transcribe on an uninitialized worker was answered with the import
\* failure of the initialize() it ran, and invoked no model.
C3_Witness ==
    /\ last_cmd = "transcribe"
    /\ nout = ncmd + 1
    /\ ~initialized
    /\ last_out = InitImportError
    /\ last_init = InitImportError
    /\ invoked = {}

\* C4 (as stated, its first part): a stats report gives as
\* transcription_count the number of transcribe commands answered with
\* success:true.
C4_StatsCountIsSuccesses ==
    last_out.msg = "stats" => last_out.count = ok_count

\* C5 (as stated): transcription_count changes only by +1, and only in the
\* handling of a transcribe command whose response is success:true.
C5_CountOnlyOnSuccess ==
    [][transcription_count' # transcription_count =>
          /\ transcription_count' = transcription_count + 1
          /\ TranscribeAnswered
          /\ last_out'.success]_vars

\* C6: every non-blank line read has produced exactly one output line by
\* the time the next line is read, and that line answers it: whenever the
\* loop is about to read, or has stopped, the lines written after the
\* startup line are as many as the commands read and the last one answers
\* the last command; while a command is being handled the line written last
\* answers the command before it.
C6_OneResponsePerCommand ==
    /\ pc \in {"read", "stopped"} => (nout = ncmd + 1 /\ last_re = ncmd)
    /\ (pc = "join" /\ pending.kind = "transcribe")
          => (nout = ncmd /\ last_re = ncmd - 1)
    /\ (pc = "start" \/ (pc = "join" /\ pending.kind = "startup"))
          => (nout = 0 /\ ncmd = 0)

\* Two commands were read and each was answered.
C6_Witness ==
    /\ pc = "read"
    /\ ncmd = 2
    /\ nout = 3
    /\ last_re = 2

\* C7 (as stated): before any input line is read, initialize() is run
\* exactly once and its result is the first line written.
C7_InitializeAlwaysRuns ==
    (pc \in {"read", "stopped"} /\ nread = 0)
        => (nout = 1 /\ attempts = 1 /\ last_out = last_init)

\* C7 (amended): nothing is read before the first line is written; in
\* FireRedASRServer and GLMASRServer that line is the result of the one
\* initialize() call made at startup, success or failure; in FunASRServer it
\* is that too when the startup check finds the model files, and otherwise
\* initialize() is not run and the line is the models_not_downloaded failure.
C7_StartupLine ==
    /\ nout = 0 => (nread = 0 /\ pc \in {"start", "join"})
    /\ (pc \in {"read", "stopped"} /\ nread = 0) =>
          /\ nout = 1
          /\ \/ attempts = 1 /\ last_out = last_init /\ last_init.msg # "none"
             \/ /\ server = "funasr"
                /\ attempts = 0
                /\ last_init = NoResp
                /\ last_out = ModelsNotDownloaded

\* FunASR found model files missing: the first line is written without any
\* initialize() call.
C7_Witness ==
    /\ server = "funasr"
    /\ pc = "read"
    /\ nread = 0
    /\ nout = 1
    /\ attempts = 0
    /\ last_out.type = "models_not_downloaded"

\* C8: an exit command is answered with exactly one success:true line and
\* stops the loop; once stopped, the worker writes nothing and reads nothing.
C8_ExitIsLast ==
    [][/\ Reads("exit") =>
            (/\ nout' = nout + 1
             /\ last_out' = ExitAck
             /\ last_out'.success
             /\ last_re' = ncmd'
             /\ pc' = "stopped")
       /\ pc = "stopped" =>
            (/\ pc' = "stopped"
             /\ UNCHANGED <<nout, last_out, nread, ncmd>>)]_vars

\* The worker stopped on an exit command, its acknowledgment the last line.
C8_Witness ==
    /\ pc = "stopped"
    /\ last_cmd = "exit"
    /\ last_out = ExitAck
    /\ ncmd = 2
    /\ nout = 3

\* C9: a line that is not valid JSON is answered with exactly one
\* success:false line, leaves initialized, the counters and the handles as
\* they were, and does not end the loop: unless a signal has cleared the
\* running flag, the next line is read.
C9_MalformedLine ==
    [][Reads("malformed") =>
          /\ nout' = nout + 1
          /\ last_out' = InvalidJson
          /\ ~last_out'.success
          /\ UNCHANGED <<initialized, transcription_count,
                         total_audio_duration, handle, running>>
          /\ pc' = (IF running THEN "read" ELSE "stopped")]_vars

\* A malformed line was answered and the loop is reading again.
C9_Witness ==
    /\ last_cmd = "malformed"
    /\ last_out = InvalidJson
    /\ pc = "read"
    /\ nout = ncmd + 1
    /\ ncmd = 1

\* C10: an error raised while a decoded command is handled (a JSON value
\* that is no object) is answered with exactly one success:false line that
\* carries the message and a traceback, and the loop goes on; the loop is
\* left with the running flag still set only on an exit command or at the
\* end of the input.
C10_HandlerErrorCaught ==
    [][/\ Reads("non_object") =>
            (/\ nout' = nout + 1
             /\ ~last_out'.success
             /\ last_out'.msg = "exception"
             /\ last_out'.traceback
             /\ pc' = (IF running THEN "read" ELSE "stopped"))
       /\ (pc # "stopped" /\ pc' = "stopped" /\ running) =>
            \/ Reads("exit")
            \/ pc = "read" /\ UNCHANGED <<nread, ncmd, nout>>]_vars

\* A command that raised was answered with the error line and the loop is
\* reading again.
C10_Witness ==
    /\ last_cmd = "non_object"
    /\ last_out = LoopError
    /\ pc = "read"
    /\ nout = ncmd + 1

\* C11: a termination signal only clears the running flag: it does not move
\* the main thread, so a read in progress is not aborted and the line it
\* returns is still handled.  Once the flag is cleared no read is started:
\* only a read that was already in progress completes, and the iteration it
\* belongs to (the wait for the FunASR loaders included) ends in the loop
\* being left.
C11_StopAfterSignal ==
    [][/\ (running /\ ~running') => UNCHANGED <<pc, inVars, outVars>>
       /\ (~running /\ pc # "read") => UNCHANGED inVars
       /\ (~running /\ pc = "read" /\ nread' # nread)
             => (nread' = nread + 1 /\ pc' \in {"join", "stopped"})
       /\ (~running /\ pc = "join") => pc' \in {"join", "stopped"}
       /\ (~running /\ pc = "start") => pc' \in {"start", "join", "stopped"}
       /\ ~running => ~running']_vars

\* The signal arrived while FireRedASRServer was blocked in its first read:
\* the read completed, the status command it returned was answered, and the
\* loop was left without a second read.
C11_Witness ==
    /\ server = "firered"
    /\ ~running
    /\ pc = "stopped"
    /\ nread = 1
    /\ last_cmd = "status"
    /\ nout = 2
    /\ last_re = 1

\* C12: a transcribe command whose audio_path does not exist is answered
\* with success:false, leaves transcription_count and total_audio_duration
\* as they were and invokes no model.
C12_NonexistentPath ==
    [][(TranscribeAnswered /\ audio_path' = "nonexistent") =>
          /\ ~last_out'.success
          /\ UNCHANGED statsVars
          /\ invoked' = {}]_vars

\* An initialized worker answered a transcribe for a file that does not
\* exist with the not-found error, after one that had succeeded.
C12_Witness ==
    /\ initialized
    /\ last_cmd = "transcribe"
    /\ audio_path = "nonexistent"
    /\ last_out = NotFound
    /\ nout = ncmd + 1
    /\ invoked = {}
    /\ transcription_count = 1

\* C13 (as stated): a transcribe command whose audio_path does not exist,
\* read while the worker is not initialized, starts no load pass and leaves
\* initialized false.
C13_NoInitForMissingFile ==
    [][(~initialized /\ Reads("transcribe") /\ audio_path' = "nonexistent")
          => (attempts' = attempts /\ ~initialized')]_vars

\* C14: once the worker is initialized it stays initialized, no load pass
\* and no loader is started any more, and handling a transcribe command
\* assigns no model handle.
C14_InitializedIsFinal ==
    [][initialized =>
          /\ initialized'
          /\ attempts' = attempts
          /\ pc' # "join"
          /\ UNCHANGED <<cur, last_init>>
          /\ Reads("transcribe") => UNCHANGED <<handle, assigns>>]_vars

\* Two transcribe commands were answered by a worker that its startup pass
\* had initialized, and that pass is still the only one.
C14_Witness ==
    /\ initialized
    /\ nbefore = 0
    /\ attempts = 1
    /\ ncmd = 2
    /\ nout = 3
    /\ last_cmd = "transcribe"
    /\ last_out.success
    /\ transcription_count = 2

\* C15 (as stated): whenever FunASRServer.initialize() returns a failure
\* after its loaders were started, the error it returns names every
\* component that failed or had not finished when the wait ended.
C15_ErrorNamesEveryFailure ==
    [][(pc = "join" /\ pc' # "join" /\ ~last_init'.success)
          => last_init'.failed = {c \in Components : cur[c] # "ok"}]_vars

\* C16: when a join of FunASRServer.initialize() times out with the thread
\* still alive, initialize() returns success:false with type timeout_error,
\* which is what its caller writes, initialized stays false, and every
\* loader still running is left running.
C16_JoinTimeout ==
    [][(pc = "join" /\ pc' # "join" /\ cur[joining] = "running") =>
          /\ waited = JoinTimeout
          /\ ~last_init'.success
          /\ last_init'.type = "timeout_error"
          /\ last_out' = last_init'
          /\ nout' = nout + 1
          /\ ~initialized'
          /\ \A c \in Components :
                stale'[c] = stale[c] + (IF cur[c] = "running" THEN 1 ELSE 0)]_vars

\* The startup pass timed out, and a loader it had stopped waiting for went
\* on and assigned its handle: both handles are set, the worker is not
\* initialized.
C16_Witness ==
    /\ server = "funasr"
    /\ attempts = 1
    /\ last_init.type = "timeout_error"
    /\ ~initialized
    /\ handle["asr_model"]
    /\ handle["vad_model"]
    /\ \A c \in Components : stale[c] = 0
    /\ pc = "read"

\* C17: in FireRedASRServer a load pass that loads the recognizer but not
\* the punctuation model returns success and sets initialized; and on an
\* initialized worker without punctuation model a transcribe of an existing
\* file during which nothing raises is answered with success:true and a text
\* equal to raw_text.
C17_PuncOptional ==
    [][server = "firered" =>
          /\ (attempts' = attempts + 1 /\ handle'["model"] /\ ~handle'["punc_model"])
                => (initialized' /\ last_init'.success)
          /\ (/\ TranscribeAnswered
              /\ initialized'
              /\ ~handle'["punc_model"]
              /\ audio_path' = "exists"
              /\ raised' \in {"none", "reclaim"})
                => (last_out'.success /\ last_out'.text = last_out'.raw_text)]_vars

\* FireRedASRServer, initialized without punctuation model, answered a
\* transcribe with the unrestored text.
C17_Witness ==
    /\ server = "firered"
    /\ nbefore = 0
    /\ initialized
    /\ handle["model"]
    /\ ~handle["punc_model"]
    /\ last_cmd = "transcribe"
    /\ last_out.success
    /\ last_out.text = "text"
    /\ last_out.raw_text = "text"

\* C18: in FireRedASRServer a transcribe during which the loaded punctuation
\* model raises is answered with success:true and a text equal to raw_text,
\* and increments transcription_count by one.
C18_PuncFailureIgnored ==
    [][(server = "firered" /\ TranscribeAnswered /\ raised' = "punc") =>
          /\ last_out'.success
          /\ last_out'.text = last_out'.raw_text
          /\ transcription_count' = transcription_count + 1]_vars

\* The punctuation model was loaded, was invoked and raised: the answer is
\* the unrestored transcript.
C18_Witness ==
    /\ server = "firered"
    /\ handle["punc_model"]
    /\ "punc_model" \in invoked
    /\ raised = "punc"
    /\ last_out.success
    /\ last_out.text = "text"
    /\ last_out.raw_text = "text"

\* C19 (as stated, its consequence): after 10 * N transcribe commands
\* answered with success:true at least N reclamation passes have run.
C19_ReclaimEveryTen ==
    reclaims >= ok_count \div CleanupEvery

\* C20: a cleanup command, in any state and whether or not gc / torch fail
\* in the pass, is answered with one success:true acknowledgment and leaves
\* initialized, the counters and the handles as they were; and a transcribe
\* whose reclamation pass fails internally is still answered success:true.
C20_ReclaimNeverFails ==
    [][/\ Reads("cleanup") =>
            (/\ nout' = nout + 1
             /\ last_out' = CleanupDone
             /\ last_out'.success
             /\ UNCHANGED <<initialized, transcription_count,
                            total_audio_duration, handle>>)
       /\ (TranscribeAnswered /\ raised' = "reclaim") =>
            (/\ last_out'.success
             /\ last_out'.msg = "transcribed"
             /\ reclaims' = reclaims + 1)]_vars

\* The tenth transcribe ran a reclamation pass in which gc / torch failed,
\* and was answered with success:true.
C20_Witness ==
    /\ last_cmd = "transcribe"
    /\ raised = "reclaim"
    /\ reclaims = 1
    /\ transcription_count = CleanupEvery
    /\ last_out.success

\* C21: a command whose action is unrecognized or absent is answered with
\* one success:false line and alters nothing: initialized, the counters,
\* the model handles and the running flag are as before and no load pass is
\* started.
C21_UnknownChangesNothing ==
    [][Reads("unknown") =>
          /\ nout' = nout + 1
          /\ last_out' = UnknownCommand
          /\ ~last_out'.success
          /\ pc' # "join"
          /\ UNCHANGED <<initialized, transcription_count, total_audio_duration,
                         handle, running, attempts, cur, last_init>>]_vars

\* An unknown command was answered by an initialized worker that had
\* transcribed once, and the loop is reading again.
C21_Witness ==
    /\ last_cmd = "unknown"
    /\ last_out = UnknownCommand
    /\ initialized
    /\ transcription_count = 1
    /\ pc = "read"

\* C22 (as stated): whatever fails in the introspection of a status command,
\* the response is the partial report that check_status() returns,
\* success:false with the initialized field, and not the error line of the
\* loop boundary.
C22_StatusNeverRaises ==
    [][(Reads("status") /\ raised' # "none") =>
          /\ ~last_out'.success
          /\ "initialized" \in last_out'.keys
          /\ ~last_out'.traceback]_vars

\* C23: when readline() returns the end of the stream the loop is left with
\* nothing written and nothing read; a stopped worker writes and reads
\* nothing more; and if the startup and every command handler return, a
\* worker whose input is eventually closed eventually stops.
C23_EofStops ==
    /\ [][(pc = "read" /\ pc' = "stopped" /\ nread' = nread)
             => UNCHANGED <<inVars, outVars>>]_vars
    /\ [][pc = "stopped" => UNCHANGED <<pc, inVars, outVars>>]_vars
    /\ ([]<>(pc \notin {"start", "join"})) => <>(pc = "stopped")

\* The loop was left at the end of the input: no signal had arrived and the
\* one command read was not exit.
C23_Witness ==
    /\ pc = "stopped"
    /\ running
    /\ nread = 1
    /\ last_cmd = "stats"
    /\ nout = 2

\* C24: every line written, the startup line included, is an object with a
\* boolean success field.
C24_SuccessField ==
    nout > 0 => ("success" \in last_out.keys /\ last_out.success \in BOOLEAN)

\* The third line written is a statistics report, wrapped in an object with
\* the success field.
C24_Witness ==
    /\ nout = 3
    /\ last_out.msg = "stats"
    /\ last_out.keys = {"success", "stats"}

\* C25 (as stated): the response to an unrecognized action has type
\* unknown_action, and the response that rejects a transcribe because its
\* audio_path does not exist has a type of its own, other than
\* transcription_error.
C25_ErrorKinds ==
    [][/\ Reads("unknown") => last_out'.type = "unknown_action"
       /\ (TranscribeAnswered /\ last_out'.msg = "audio_not_found")
             => ("type" \in last_out'.keys
                 /\ last_out'.type \notin {"", "transcription_error"})]_vars

\* C26 (as stated, its first part): no model handle is assigned a model
\* more than once in the life of the process.
C26_AssignedOnce ==
    \A h \in AllHandles : assigns[h] <= 1

\* Inference raised: the recognizer (or, in FunASRServer, the VAD model) was
\* invoked by the latest command and raised.
InferenceFailed == raised \in {"vad", "model"}

\* C27: on an initialized worker a transcribe whose inference raises is
\* answered with success:false, type transcription_error, and leaves
\* initialized true and the handles, the counters and the initialization
\* result as they were, with no load pass started; the failure is not
\* remembered: a transcribe of an existing file during which nothing raises
\* is answered with success:true whatever was answered before.
C27_InferenceFailure ==
    [][/\ (TranscribeAnswered /\ initialized /\ InferenceFailed') =>
            (/\ last_out' = TranscriptionError
             /\ ~last_out'.success
             /\ last_out'.type = "transcription_error"
             /\ initialized'
             /\ UNCHANGED <<handle, assigns, attempts, last_init, statsVars>>)
       /\ (TranscribeAnswered /\ initialized /\ audio_path' = "exists"
             /\ raised' = "none") => last_out'.success]_vars

\* The recognizer of an initialized worker raised on the second transcribe,
\* after a first one had succeeded.
C27_Witness ==
    /\ initialized
    /\ last_cmd = "transcribe"
    /\ raised = "model"
    /\ last_out = TranscriptionError
    /\ ok_count = 1
    /\ transcription_count = 1
    /\ pc = "read"

\* C28 (as stated): FunASRServer.initialize() never waits for its loaders
\* longer than one timeout period, counted from their start.
C28_SharedDeadline ==
    pc = "join" => elapsed <= JoinTimeout

\* C29 (as stated, for FunASRServer): when a load pass fails because the
\* funasr library cannot be imported, initialize() returns type
\* import_error.
C29_ImportErrorKind ==
    [][(/\ pc = "join"
        /\ pc' # "join"
        /\ \E c \in Components : cur[c] = "no_module")
          => last_init'.type = "import_error"]_vars

\* C30 (as stated, for the two servers that probe the duration): when the
\* duration probe raises during a transcribe, the response is success:true
\* with duration 0.
C30_ProbeTolerant ==
    [][(server # "glm" /\ TranscribeAnswered /\ raised' = "probe")
          => (last_out'.success /\ last_out'.duration = 0)]_vars

\* C31 (as stated): in FunASRServer initialized is true only when both
\* loaders recorded a successful load, so an initialized worker has both
\* its asr_model and its vad_model set.
C31_ReadyHasBothModels ==
    (server = "funasr" /\ initialized)
        => (handle["asr_model"] /\ handle["vad_model"])

\* C33 (as stated): a status or stats report of FunASRServer that shows a
\* model as loaded shows initialized = true.
C33_LoadedImpliesReady ==
    (/\ server = "funasr"
     /\ pc \in {"read", "stopped"}
     /\ last_cmd \in {"status", "stats"}
     /\ last_out.msg \in {"status", "stats"}
     /\ last_out.models # {}) => last_out.initialized

\* C34: initialized is written only where initialize() ends in the
\* dispatching thread, and only to true, with a success returned: in
\* FunASRServer after both joins found their thread ended, in the other two
\* at the end of their load pass; a loader that ends after its initialize()
\* has returned the timeout failure leaves initialized, the result of that
\* initialize() and the position of the loop as they are.
C34_ReadyOnlyByInitialize ==
    [][/\ (initialized' # initialized) =>
            (/\ initialized'
             /\ last_init'.success
             /\ IF server = "funasr"
                THEN /\ pc = "join"
                     /\ pc' # "join"
                     /\ joining = "vad"
                     /\ \A c \in Components : cur[c] # "running"
                ELSE attempts' = attempts + 1)
       /\ (\E c \in Components : stale'[c] < stale[c]) =>
            UNCHANGED <<initialized, last_init, pc, outVars>>]_vars

\* An initialize() of FunASRServer timed out, both of its loaders have
\* since ended with their model loaded, and a status command then reported
\* both models and initialized = false.
C34_Witness ==
    /\ server = "funasr"
    /\ ~initialized
    /\ last_init = InitTimeout
    /\ \A c \in Components : stale[c] = 0
    /\ handle["asr_model"]
    /\ handle["vad_model"]
    /\ pc = "read"
    /\ last_cmd = "status"
    /\ last_out.models = {"asr_model", "vad_model"}
    /\ ~last_out.initialized

\* C32: when the startup check of FunASRServer finds model files missing,
\* the first output line is the failure of type models_not_downloaded,
\* written before anything is read, with no initialize() call and no loader
\* thread started; a worker on which initialize() was never called is not
\* initialized and has no model; and the first transcribe command read by
\* such a worker calls initialize(), which starts both loaders.
C32_MissingModelsAtStartup ==
    [][/\ (server = "funasr" /\ pc = "start" /\ pc' \notin {"start", "join"}) =>
            (/\ last_out' = ModelsNotDownloaded
             /\ last_out'.type = "models_not_downloaded"
             /\ ~last_out'.success
             /\ nout' = 1
             /\ last_re' = 0
             /\ nread' = 0
             /\ attempts' = 0
             /\ \A c \in Components : cur'[c] = "idle" /\ stale'[c] = 0)
       /\ (server = "funasr" /\ attempts' = 0) =>
            (~initialized' /\ \A h \in Handles("funasr") : ~handle'[h])
       /\ (server = "funasr" /\ attempts = 0 /\ Reads("transcribe")) =>
            (/\ attempts' = 1
             /\ pc' = "join"
             /\ pending'.kind = "transcribe"
             /\ \A c \in Components : cur'[c] = "running")]_vars

\* The startup check found model files missing, the failure was the first
\* line, and a transcribe command read later has started both loaders.
C32_Witness ==
    /\ server = "funasr"
    /\ attempts = 1
    /\ pc = "join"
    /\ pending.kind = "transcribe"
    /\ \A c \in Components : cur[c] = "running"
    /\ nout = 1
    /\ last_out = ModelsNotDownloaded
    /\ ~initialized

\* C35: the signal handler only sets the stop flag: it leaves a pending
\* read, and what was read and written, as they are. A line that is read
\* with the flag already set is handled to its end: a command is answered
\* with one line, directly or after the initialize() its handler calls, and
\* then the loop stops; once stopped, nothing is read or written.
C35_LateCommandAnswered ==
    [][/\ (running /\ ~running') => UNCHANGED <<pc, inVars, outVars>>
       /\ (~running /\ pc = "read" /\ ncmd' = ncmd + 1) =>
            \/ pc' = "join" /\ nout' = nout
            \/ pc' = "stopped" /\ nout' = nout + 1 /\ last_re' = ncmd'
       /\ (~running /\ pc = "join" /\ pc' # "join") =>
            (pc' = "stopped" /\ nout' = nout + 1 /\ last_re' = ncmd)
       /\ (~running /\ pc = "read" /\ nread' = nread + 1) =>
            pc' \in {"join", "stopped"}
       /\ (pc = "stopped") => UNCHANGED <<pc, inVars, outVars>>]_vars

\* A GLM worker that was signalled has stopped after answering its second
\* command, a transcribe, with a success.
C35_Witness ==
    /\ server = "glm"
    /\ ~running
    /\ pc = "stopped"
    /\ nread = 2
    /\ ncmd = 2
    /\ last_cmd = "transcribe"
    /\ last_out.success
    /\ nout = 3
    /\ last_re = 2

\* C36: a signal that arrives before the startup line is written leaves
\* the startup initialization going; when that ends, its outcome is written
\* as the first output line, and the loop stops without a read.
C36_StartupLineDespiteSignal ==
    [][/\ (nout = 0 /\ running /\ ~running') =>
            UNCHANGED <<pc, threadVars, outVars, attempts>>
       /\ (~running /\ nout = 0 /\ pc \in {"start", "join"}
             /\ pc' \notin {"start", "join"}) =>
            (/\ nout' = 1
             /\ last_re' = 0
             /\ last_out'.msg # "none"
             /\ (attempts' > 0 => last_out' = last_init')
             /\ pc' = "stopped"
             /\ nread' = 0)
       /\ (~running /\ nread = 0 /\ pc = "stopped") =>
            UNCHANGED <<nread, nout>>]_vars

\* A signalled FunASR worker has stopped with the timeout failure of its
\* startup initialization as its only output line and nothing read.
C36_Witness ==
    /\ server = "funasr"
    /\ ~running
    /\ pc = "stopped"
    /\ nread = 0
    /\ nout = 1
    /\ last_out = InitTimeout
    /\ attempts = 1

\* C37: a line that is blank after strip() writes nothing and changes
\* nothing but the number of lines read; after the startup line, between
\* two iterations, the output lines are one per non-blank line read, and
\* while a transcribe waits for its initialize() its line is the only one
\* not yet answered.
C37_BlankLineSilent ==
    [][/\ (nread' = nread + 1 /\ ncmd' = ncmd) =>
            (/\ pc' = LoopTop(running)
             /\ UNCHANGED <<running, initialized, statsVars, handle,
                            threadVars, last_cmd, audio_path, outVars,
                            attempts, last_init, ghostVars, assigns>>)
       /\ (nout' >= 1 /\ pc' \in {"read", "stopped"}) =>
            nout' - 1 = ncmd' - nbefore
       /\ (nout' >= 1 /\ pc' = "join") =>
            nout' - 1 = ncmd' - nbefore - 1
       /\ ncmd' <= nread']_vars

\* A worker has read a blank line and a stats command, and has written the
\* startup line and one answer.
C37_Witness ==
    /\ pc = "read"
    /\ nread = 2
    /\ ncmd = 1
    /\ nout = 2
    /\ last_re = 1
    /\ last_cmd = "stats"

\* C38 (as stated): a transcribe command whose audio_path is missing or is
\* not a string is answered with a failure, invokes no model and leaves
\* the counters as they are, and the loop goes on as the stop flag says.
C38_NoPathNoInference ==
    [][(TranscribeAnswered /\ audio_path' \in {"absent", "fd"}) =>
          (/\ ~last_out'.success
           /\ invoked' = {}
           /\ UNCHANGED statsVars
           /\ pc' = LoopTop(running))]_vars

====
